---- MODULE Spec2Model ----
(***************************************************************************)
(* Model of plotter.py: parse_log_file (a line-by-line scan of a training  *)
(* log with one fixed regular expression) and create_plots (two passes     *)
(* over zip(log_files, labels), each ending in a savefig).                 *)
(*                                                                         *)
(* A line is a sequence of one-character strings.  An int is a natural     *)
(* number.  A float is an exact decimal <<m, e>> standing for m / 10^e     *)
(* with no trailing zero in the fraction; the numeric fields of the model  *)
(* are short, so that every value is far inside the range of a double and  *)
(* the rounding of IEEE arithmetic is not modelled.                        *)
(***************************************************************************)
EXTENDS Integers, Sequences, FiniteSets, TLC

\* ------------------------------------------------------------------ bounds
MaxLines == 2      \* lines of a file in the parser specification
MaxFiles == 2      \* length of log_files and of labels
MaxRuns  == 2      \* calls of create_plots in one behaviour

\* ------------------------------------------------------- characters, regex
Digit == {"0", "1", "2", "3", "4", "5", "6", "7", "8", "9"}

DigitOrDot == Digit \cup {"."}

LitStep      == <<"s", "t", "e", "p", ":">>
LitSlash     == <<"/">>
LitValLoss   == <<" ", "v", "a", "l", "_", "l", "o", "s", "s", ":">>
LitTrainTime == <<" ", "t", "r", "a", "i", "n", "_", "t", "i", "m", "e", ":">>
LitStepAvg   == <<"m", "s", " ", "s", "t", "e", "p", "_", "a", "v", "g", ":">>
LitMs        == <<"m", "s">>

NoMatch == [matched |-> FALSE]

\* Position after the literal lit matched at position p of line, 0 if the
\* literal is not there (p = 0 propagates an earlier failure).
Lit(line, p, lit) ==
    IF /\ p > 0
       /\ p + Len(lit) - 1 <= Len(line)
       /\ \A k \in 1..Len(lit) : line[p + k - 1] = lit[k]
    THEN p + Len(lit)
    ELSE 0

RECURSIVE RunEnd(_, _, _)
\* First position at or after p whose character is not in class.
RunEnd(line, p, class) ==
    IF p <= Len(line) /\ line[p] \in class
    THEN RunEnd(line, p + 1, class)
    ELSE p

\* Position after a greedy, non-empty run of class characters at p, else 0.
\* Every run of the pattern is followed by a literal whose first character
\* is outside the class, so the greedy run is the only possible match.
Run(line, p, class) ==
    IF p > 0 /\ RunEnd(line, p, class) > p THEN RunEnd(line, p, class) ELSE 0

\* The pattern r'step:(\d+)/\d+ val_loss:([\d.]+) train_time:(\d+)ms
\* step_avg:([\d.]+)ms' tried at position start of line; re.match tries
\* it at the start of the line only, and whatever follows the final 'ms'
\* is ignored.
MatchAt(line, start) ==
    LET p1 == Lit(line, start, LitStep)
        p2 == Run(line, p1, Digit)
        p3 == Lit(line, p2, LitSlash)
        p4 == Run(line, p3, Digit)
        p5 == Lit(line, p4, LitValLoss)
        p6 == Run(line, p5, DigitOrDot)
        p7 == Lit(line, p6, LitTrainTime)
        p8 == Run(line, p7, Digit)
        p9 == Lit(line, p8, LitStepAvg)
        p10 == Run(line, p9, DigitOrDot)
        p11 == Lit(line, p10, LitMs)
    IN  IF p11 = 0
        THEN NoMatch
        ELSE [matched |-> TRUE,
              g1 |-> SubSeq(line, p1, p2 - 1),
              total |-> SubSeq(line, p3, p4 - 1),
              g2 |-> SubSeq(line, p5, p6 - 1),
              g3 |-> SubSeq(line, p7, p8 - 1),
              g4 |-> SubSeq(line, p9, p10 - 1)]

\* re.search in place of re.match: the pattern may start anywhere.
MatchAnywhere(line) ==
    IF \E k \in 1..Len(line) : MatchAt(line, k).matched
    THEN MatchAt(line, CHOOSE k \in 1..Len(line) :
                          /\ MatchAt(line, k).matched
                          /\ \A j \in 1..(k - 1) : ~MatchAt(line, j).matched)
    ELSE NoMatch

Match(line) == MatchAt(line, 1)

\* --------------------------------------------------------- int(), float()
DigitVal(c) ==
    CASE c = "0" -> 0 [] c = "1" -> 1 [] c = "2" -> 2 [] c = "3" -> 3
      [] c = "4" -> 4 [] c = "5" -> 5 [] c = "6" -> 6 [] c = "7" -> 7
      [] c = "8" -> 8 [] c = "9" -> 9

RECURSIVE IntOf(_)
\* int(s) for a run of digits: leading zeros are allowed.
IntOf(ds) ==
    IF ds = <<>> THEN 0
    ELSE 10 * IntOf(SubSeq(ds, 1, Len(ds) - 1)) + DigitVal(ds[Len(ds)])

\* What float() gives when it raises ValueError in place of a value.
ValueError == <<"ValueError">>

DotCount(cs) == Cardinality({k \in 1..Len(cs) : cs[k] = "."})

RECURSIVE Normalize(_)
\* The decimal m / 10^e without trailing zeros in its fraction.
Normalize(d) ==
    IF d[2] > 0 /\ d[1] % 10 = 0
    THEN Normalize(<<d[1] \div 10, d[2] - 1>>)
    ELSE d

\* float() with the decimal point counted from the wrong end: the exponent
\* is taken from the digits before the dot.
FloatOf_Misplaced(cs) ==
    IF DotCount(cs) > 1 \/ Len(cs) = DotCount(cs)
    THEN ValueError
    ELSE LET dot == IF DotCount(cs) = 0
                    THEN Len(cs) + 1
                    ELSE CHOOSE k \in 1..Len(cs) : cs[k] = "."
             digits == SubSeq(cs, 1, dot - 1) \o SubSeq(cs, dot + 1, Len(cs))
         IN  Normalize(<<IntOf(digits), IF dot > Len(cs) THEN 0 ELSE dot - 1>>)

\* float(s) for a run of digits and dots: ValueError when the run holds more
\* than one dot or no digit; "1." and ".5" are accepted.
FloatOf(cs) ==
    IF DotCount(cs) > 1 \/ Len(cs) = DotCount(cs)
    THEN ValueError
    ELSE LET dot == IF DotCount(cs) = 0
                    THEN Len(cs) + 1
                    ELSE CHOOSE k \in 1..Len(cs) : cs[k] = "."
             digits == SubSeq(cs, 1, dot - 1) \o SubSeq(cs, dot + 1, Len(cs))
         IN  Normalize(<<IntOf(digits), Len(cs) - dot + (IF dot > Len(cs) THEN 1 ELSE 0)>>)

\* avg_time * step: float times int.
FloatTimesInt(f, n) == Normalize(<<f[1] * n, f[2]>>)


\* ------------------------------------------------ writing the fields back
DigitChar(d) ==
    CASE d = 0 -> "0" [] d = 1 -> "1" [] d = 2 -> "2" [] d = 3 -> "3"
      [] d = 4 -> "4" [] d = 5 -> "5" [] d = 6 -> "6" [] d = 7 -> "7"
      [] d = 8 -> "8" [] d = 9 -> "9"

RECURSIVE FormatInt(_)
\* The decimal digits of a natural number, without leading zeros.
FormatInt(n) ==
    IF n < 10 THEN <<DigitChar(n)>>
    ELSE Append(FormatInt(n \div 10), DigitChar(n % 10))

RECURSIVE Pow10(_)
Pow10(e) == IF e = 0 THEN 1 ELSE 10 * Pow10(e - 1)

RECURSIVE PadLeft(_, _)
PadLeft(ds, width) == IF Len(ds) >= width THEN ds ELSE PadLeft(<<"0">> \o ds, width)

\* The positional decimal of a float: integer part, dot, fraction ("0" when
\* the value is whole), as in 50.0, 3.45 and 0.5.
FormatFloat(f) ==
    FormatInt(f[1] \div Pow10(f[2])) \o <<".">>
        \o (IF f[2] = 0 THEN <<"0">> ELSE PadLeft(FormatInt(f[1] % Pow10(f[2])), f[2]))

\* np.array(times) / (1000 * 60 * 60): the quotient kept as the pair
\* <<numerator, denominator>> of the decimal's value over 3600000.
MsPerHour == 1000 * 60 * 60

ToHours(ts) == [k \in 1..Len(ts) |-> <<ts[k], MsPerHour>>]

\* ------------------------------------------------------------------ inputs
NL == "\n"

\* A log line in the layout the pattern expects.
MkLine(s, t, l, tt, a) ==
    LitStep \o s \o LitSlash \o t \o LitValLoss \o l \o LitTrainTime \o tt
            \o LitStepAvg \o a \o LitMs \o <<NL>>

StepFields == {<<"1", "0", "0">>, <<"7">>, <<"0", "0", "7">>}

TotalField == <<"1", "0", "0", "0">>

LossFields == {<<"3", ".", "4", "5">>, <<".", "5">>, <<"1", ".">>}

TimeField == <<"5", "0", "0", "0">>

AvgFields == {<<"5", "0", ".", "0">>, <<"2">>, <<"0", ".", "2", "5">>}

\* step:100/1000 val_loss:3.45 train_time:5000ms step_avg:50.0ms
ExampleLine ==
    MkLine(<<"1", "0", "0">>, TotalField, <<"3", ".", "4", "5">>, TimeField,
           <<"5", "0", ".", "0">>)

\* Lines that match and whose fields int() and float() accept.
GoodLines ==
    {MkLine(s, TotalField, <<"3", ".", "4", "5">>, TimeField, <<"5", "0", ".", "0">>) :
        s \in StepFields}
    \cup {MkLine(<<"7">>, TotalField, l, TimeField, a) :
             l \in LossFields, a \in AvgFields}
    \cup {\* step 0, and no newline at the end of the file
          SubSeq(MkLine(<<"0">>, <<"1", "0">>, <<"2">>, <<"0">>, <<"1", ".", "5">>),
                 1, Len(MkLine(<<"0">>, <<"1", "0">>, <<"2">>, <<"0">>, <<"1", ".", "5">>)) - 1),
          \* text after the final 'ms'
          SubSeq(ExampleLine, 1, Len(ExampleLine) - 1) \o <<" ", "x", NL>>}

\* Lines that match although float() rejects a captured field.
BadNumberLines ==
    {MkLine(<<"7">>, TotalField, <<"1", ".", "2", ".", "3">>, TimeField, <<"2">>),
     MkLine(<<"7">>, TotalField, <<".", "5">>, TimeField, <<".">>)}

BlankLine == <<NL>>

CommentLine == <<"#", " ">> \o ExampleLine

PrefixedLine == <<" ">> \o ExampleLine

\* the train_time field is missing
MissingFieldLine ==
    LitStep \o <<"7">> \o LitSlash \o TotalField \o LitValLoss \o <<".", "5">>
            \o <<" ", "s", "t", "e", "p", "_", "a", "v", "g", ":", "2", "m", "s", NL>>

\* the step field is empty
EmptyStepLine == MkLine(<<>>, TotalField, <<".", "5">>, TimeField, <<"2">>)

\* a letter inside a float field
LetterLine == MkLine(<<"7">>, TotalField, <<"n", "a", "n">>, TimeField, <<"2">>)

\* the final 'ms' is cut off
CutLine == SubSeq(ExampleLine, 1, Len(ExampleLine) - 3)

OtherLines ==
    {BlankLine, CommentLine, PrefixedLine, MissingFieldLine, EmptyStepLine,
     LetterLine, CutLine}

Lines == GoodLines \cup BadNumberLines \cup OtherLines

RECURSIVE SeqsUpTo(_, _)
\* The sequences over S of length at most n.
SeqsUpTo(S, n) ==
    IF n = 0 THEN {<<>>}
    ELSE LET shorter == SeqsUpTo(S, n - 1)
         IN  shorter \cup {Append(q, x) : q \in {r \in shorter : Len(r) = n - 1}, x \in S}

\* A path without a readable file behind it, and a file of the given lines.
Missing == [exists |-> FALSE, lines |-> <<>>]

File(ls) == [exists |-> TRUE, lines |-> ls]

\* File contents of the parser specification.
ParseContents == {File(ls) : ls \in SeqsUpTo(Lines, MaxLines)}

Line7(l, a) == MkLine(<<"7">>, TotalField, l, TimeField, a)

\* File contents of the renderer specification: an empty file, a file with
\* three matching lines among others, one with five, and one whose second
\* matching line carries a float field that float() rejects.
File3 ==
    <<ExampleLine, BlankLine, Line7(<<".", "5">>, <<"2">>), CommentLine,
      Line7(<<"1", ".">>, <<"0", ".", "2", "5">>)>>

File5 ==
    <<Line7(<<".", "5">>, <<"2">>), ExampleLine, ExampleLine,
      Line7(<<"1", ".">>, <<"2">>), Line7(<<"3", ".", "4", "5">>, <<"2">>)>>

FileBad ==
    <<ExampleLine, MkLine(<<"7">>, TotalField, <<"1", ".", "2", ".", "3">>, TimeField, <<"2">>),
      ExampleLine>>

RenderContents == {File(<<>>), File(File3), File(File5), File(FileBad)}

Paths == {"a.txt", "b.txt"}

\* The label lists: labels only reach the legend, so the k-th label of a
\* list is a value that names its position.
Label(k) == <<"label", k>>

LabelLists == {[k \in 1..n |-> Label(k)] : n \in 0..MaxFiles}

ImageNames == {"validation_vs_steps.png", "validation_vs_time.png"}


\* ------------------------------------------------------------------- state
VARIABLES
    fs,         \* log files: path -> File(lines) or Missing
    outdir,     \* output directory: "absent", "present" or "blocked"
    outfiles,   \* files under the output directory: <<name, writing run>>
    run,        \* number of calls of create_plots so far
    cpc,        \* position in create_plots
    log_files,  \* argument of create_plots
    labels,     \* argument of create_plots
    idx,        \* position of the running for loop in zip(log_files, labels)
    figure,     \* curves plotted on the current figure
    error,      \* the exception being raised, "none" if there is none
    ppc,        \* position in parse_log_file
    filename,   \* argument of parse_log_file
    pos,        \* next line of the file iterator
    steps,      \* parse_log_file's list steps
    losses,     \* parse_log_file's list losses
    times,      \* parse_log_file's list times
    handles,    \* open file handles, by path, in opening order
    events      \* what the current run did to the file system, in order

vars ==
    <<fs, outdir, outfiles, run, cpc, log_files, labels, idx, figure, error,
      ppc, filename, pos, steps, losses, times, handles, events>>

rendererVars == <<outdir, outfiles, run, cpc, log_files, labels, idx, figure>>

Min(a, b) == IF a <= b THEN a ELSE b

\* A loop over log_files that looks the label up by index and falls back to
\* an empty label.
Zip_ByFiles(a, b) == [k \in 1..Len(a) |-> <<a[k], IF k <= Len(b) THEN b[k] ELSE <<>> >>]

\* zip(log_files, labels): stops at the end of the shorter argument.
Zip(a, b) == [k \in 1..Min(Len(a), Len(b)) |-> <<a[k], b[k]>>]

Pairs == Zip(log_files, labels)

content == fs[filename].lines

\* ---------------------------------------------------------- parse_log_file
\* open(filename, 'r') of an existing file, after the three lists were made.
ParseOpen ==
    /\ ppc = "call"
    /\ fs[filename].exists
    /\ ppc' = "scan"
    /\ pos' = 1
    /\ handles' = Append(handles, filename)
    /\ events' = Append(events, <<"open", filename>>)
    /\ UNCHANGED <<fs, rendererVars, error, filename, steps, losses, times>>

\* open(filename, 'r') of a missing or unreadable file raises.
ParseOpenFail ==
    /\ ppc = "call"
    /\ ~fs[filename].exists
    /\ ppc' = "raised"
    /\ error' = "FileNotFoundError"
    /\ events' = Append(events, <<"open", filename>>)
    /\ UNCHANGED <<fs, rendererVars, filename, pos, steps, losses, times, handles>>

\* One turn of the for loop on a line the pattern does not match.
ParseSkip ==
    /\ ppc = "scan"
    /\ pos <= Len(content)
    /\ ~Match(content[pos]).matched
    /\ pos' = pos + 1
    /\ UNCHANGED <<fs, rendererVars, error, ppc, filename, steps, losses, times,
                   handles, events>>

\* The turn on a matching line with the append to times left out.
ParseAppend_NoTimes ==
    /\ ppc = "scan"
    /\ pos <= Len(content)
    /\ LET match == Match(content[pos])
       IN  /\ match.matched
           /\ FloatOf(match.g2) # ValueError
           /\ FloatOf(match.g4) # ValueError
           /\ steps' = Append(steps, IntOf(match.g1))
           /\ losses' = Append(losses, FloatOf(match.g2))
    /\ pos' = pos + 1
    /\ UNCHANGED <<fs, rendererVars, error, ppc, filename, times, handles, events>>

\* The turn on a matching line with the train_time field taken for the
\* cumulative time.
ParseAppend_TrainTime ==
    /\ ppc = "scan"
    /\ pos <= Len(content)
    /\ LET match == Match(content[pos])
       IN  /\ match.matched
           /\ FloatOf(match.g2) # ValueError
           /\ FloatOf(match.g4) # ValueError
           /\ steps' = Append(steps, IntOf(match.g1))
           /\ losses' = Append(losses, FloatOf(match.g2))
           /\ times' = Append(times, FloatOf(match.g3))
    /\ pos' = pos + 1
    /\ UNCHANGED <<fs, rendererVars, error, ppc, filename, handles, events>>

\* One turn of the for loop on a matching line whose fields convert.
ParseAppend ==
    /\ ppc = "scan"
    /\ pos <= Len(content)
    /\ LET match == Match(content[pos])
       IN  /\ match.matched
           /\ FloatOf(match.g2) # ValueError
           /\ FloatOf(match.g4) # ValueError
           /\ LET step == IntOf(match.g1)
                  loss == FloatOf(match.g2)
                  avg_time == FloatOf(match.g4)
              IN  /\ steps' = Append(steps, step)
                  /\ losses' = Append(losses, loss)
                  /\ times' = Append(times, FloatTimesInt(avg_time, step))
    /\ pos' = pos + 1
    /\ UNCHANGED <<fs, rendererVars, error, ppc, filename, handles, events>>

\* The ValueError without the with block: the file stays open.
ParseValueError_NoClose ==
    /\ ppc = "scan"
    /\ pos <= Len(content)
    /\ LET match == Match(content[pos])
       IN  /\ match.matched
           /\ FloatOf(match.g2) = ValueError \/ FloatOf(match.g4) = ValueError
    /\ ppc' = "raised"
    /\ error' = "ValueError"
    /\ UNCHANGED <<fs, rendererVars, filename, pos, steps, losses, times, handles,
                   events>>

\* One turn of the for loop on a matching line with a field float() rejects:
\* the ValueError leaves the with block, which closes the file.
ParseValueError ==
    /\ ppc = "scan"
    /\ pos <= Len(content)
    /\ LET match == Match(content[pos])
       IN  /\ match.matched
           /\ FloatOf(match.g2) = ValueError \/ FloatOf(match.g4) = ValueError
    /\ ppc' = "raised"
    /\ error' = "ValueError"
    /\ handles' = SubSeq(handles, 1, Len(handles) - 1)
    /\ events' = Append(events, <<"close", filename>>)
    /\ UNCHANGED <<fs, rendererVars, filename, pos, steps, losses, times>>

\* End of the file: the with block closes it and the three lists are returned.
ParseReturn ==
    /\ ppc = "scan"
    /\ pos > Len(content)
    /\ ppc' = "returned"
    /\ handles' = SubSeq(handles, 1, Len(handles) - 1)
    /\ events' = Append(events, <<"close", filename>>)
    /\ UNCHANGED <<fs, rendererVars, error, filename, pos, steps, losses, times>>

\* ------------------------------------------------------------ create_plots
parseVars == <<ppc, filename, pos, steps, losses, times>>

\* A call create_plots(lf, lb, output_dir), the first or after an earlier
\* call has returned or raised.
Call ==
    /\ cpc \in {"idle", "done", "error"}
    /\ run < MaxRuns
    /\ \E lf \in SeqsUpTo(Paths, MaxFiles), lb \in LabelLists :
          /\ log_files' = lf
          /\ labels' = lb
    /\ run' = run + 1
    /\ cpc' = "makedirs"
    /\ idx' = 1
    /\ figure' = <<>>
    /\ error' = "none"
    /\ ppc' = "none"
    /\ filename' = "none"
    /\ pos' = 1
    /\ steps' = <<>>
    /\ losses' = <<>>
    /\ times' = <<>>
    /\ events' = <<>>
    /\ UNCHANGED <<fs, outdir, outfiles, handles>>

\* os.makedirs(output_dir, exist_ok=True), then plt.figure().
Makedirs ==
    /\ cpc = "makedirs"
    /\ outdir # "blocked"
    /\ outdir' = "present"
    /\ cpc' = "pass1"
    /\ figure' = <<>>
    /\ events' = Append(events, <<"makedirs">>)
    /\ UNCHANGED <<fs, outfiles, run, log_files, labels, idx, error, parseVars,
                   handles>>

\* os.makedirs raises (no permission, or a file is in the way).
MakedirsFail ==
    /\ cpc = "makedirs"
    /\ outdir = "blocked"
    /\ cpc' = "error"
    /\ error' = "OSError"
    /\ UNCHANGED <<fs, outdir, outfiles, run, log_files, labels, idx, figure,
                   parseVars, handles, events>>

\* The call parse_log_file(log_file) of a loop: the three lists start empty.
CallParse(pass) ==
    /\ cpc = pass
    /\ ppc = "none"
    /\ idx <= Len(Pairs)
    /\ ppc' = "call"
    /\ filename' = Pairs[idx][1]
    /\ pos' = 1
    /\ steps' = <<>>
    /\ losses' = <<>>
    /\ times' = <<>>
    /\ UNCHANGED <<fs, rendererVars, error, handles, events>>

\* The exception caught in the loop, which goes on with the next file.
Abort_Skip ==
    /\ cpc \in {"pass1", "pass2"}
    /\ ppc = "raised"
    /\ ppc' = "none"
    /\ error' = "none"
    /\ idx' = idx + 1
    /\ UNCHANGED <<fs, outdir, outfiles, run, cpc, log_files, labels, figure,
                   filename, pos, steps, losses, times, handles, events>>

\* An exception of parse_log_file leaves create_plots: nothing catches it.
Abort ==
    /\ cpc \in {"pass1", "pass2"}
    /\ ppc = "raised"
    /\ cpc' = "error"
    /\ UNCHANGED <<fs, outdir, outfiles, run, log_files, labels, idx, figure,
                   error, parseVars, handles, events>>

\* plt.savefig(os.path.join(output_dir, name)): the file of that name is
\* replaced, or created.
Savefig(name) == {f \in outfiles : f[1] # name} \cup {<<name, run>>}

Pass1Call == CallParse("pass1")

\* steps, losses, _ = parse_log_file(log_file); plt.plot(steps, losses, ...)
Pass1Plot ==
    /\ cpc = "pass1"
    /\ ppc = "returned"
    /\ figure' = Append(figure, [label |-> Pairs[idx][2], file |-> filename,
                                 x |-> steps, y |-> losses])
    /\ idx' = idx + 1
    /\ ppc' = "none"
    /\ UNCHANGED <<fs, outdir, outfiles, run, cpc, log_files, labels, error,
                   filename, pos, steps, losses, times, handles, events>>

\* The end of the first loop when both loops share one zip iterator: the
\* second loop finds it exhausted.
Save1_ExhaustedZip ==
    /\ cpc = "pass1"
    /\ ppc = "none"
    /\ idx > Len(Pairs)
    /\ outfiles' = Savefig("validation_vs_steps.png")
    /\ events' = Append(events, <<"savefig", "validation_vs_steps.png">>)
    /\ figure' = <<>>
    /\ cpc' = "pass2"
    /\ UNCHANGED <<fs, outdir, run, log_files, labels, idx, error, parseVars, handles>>

\* End of the first loop: the figure is decorated, saved and closed, and
\* plt.figure() starts the second one.
Save1 ==
    /\ cpc = "pass1"
    /\ ppc = "none"
    /\ idx > Len(Pairs)
    /\ outfiles' = Savefig("validation_vs_steps.png")
    /\ events' = Append(events, <<"savefig", "validation_vs_steps.png">>)
    /\ figure' = <<>>
    /\ idx' = 1
    /\ cpc' = "pass2"
    /\ UNCHANGED <<fs, outdir, run, log_files, labels, error, parseVars, handles>>

Pass2Call == CallParse("pass2")

\* _, losses, times = parse_log_file(log_file); times in hours;
\* plt.plot(times, losses, ...)
Pass2Plot ==
    /\ cpc = "pass2"
    /\ ppc = "returned"
    /\ figure' = Append(figure, [label |-> Pairs[idx][2], file |-> filename,
                                 x |-> ToHours(times), y |-> losses])
    /\ idx' = idx + 1
    /\ ppc' = "none"
    /\ UNCHANGED <<fs, outdir, outfiles, run, cpc, log_files, labels, error,
                   filename, pos, steps, losses, times, handles, events>>

\* End of the second loop: the figure is decorated, saved and closed.
Save2 ==
    /\ cpc = "pass2"
    /\ ppc = "none"
    /\ idx > Len(Pairs)
    /\ outfiles' = Savefig("validation_vs_time.png")
    /\ events' = Append(events, <<"savefig", "validation_vs_time.png">>)
    /\ figure' = <<>>
    /\ cpc' = "done"
    /\ UNCHANGED <<fs, outdir, run, log_files, labels, idx, error, parseVars,
                   handles>>

\* --------------------------------------------------------- specifications
\* What an output directory that exists may hold before the first call: an
\* image of an earlier program run and a file of another name.
StaleFiles == {<<"validation_vs_steps.png", 0>>, <<"notes.txt", 0>>}

\* The renderer: calls of create_plots on a file system of two log files.
Init ==
    /\ fs \in [Paths -> RenderContents \cup {Missing}]
    /\ outdir \in {"absent", "present", "blocked"}
    /\ outfiles \in (IF outdir = "present" THEN {{}, StaleFiles} ELSE {{}})
    /\ run = 0
    /\ cpc = "idle"
    /\ log_files = <<>>
    /\ labels = <<>>
    /\ idx = 1
    /\ figure = <<>>
    /\ error = "none"
    /\ ppc = "none"
    /\ filename = "none"
    /\ pos = 1
    /\ steps = <<>>
    /\ losses = <<>>
    /\ times = <<>>
    /\ handles = <<>>
    /\ events = <<>>

Next ==
    \/ Call
    \/ Makedirs
    \/ MakedirsFail
    \/ Pass1Call
    \/ Pass1Plot
    \/ Save1
    \/ Pass2Call
    \/ Pass2Plot
    \/ Save2
    \/ Abort
    \/ ParseOpen
    \/ ParseOpenFail
    \/ ParseSkip
    \/ ParseAppend
    \/ ParseValueError
    \/ ParseReturn

Spec == Init /\ [][Next]_vars

\* The parser alone: one call parse_log_file("a.txt") on a file drawn from
\* the sequences of at most MaxLines lines, or missing.
InitParse ==
    /\ \E c \in ParseContents \cup {Missing} :
          fs = [p \in Paths |-> IF p = "a.txt" THEN c ELSE Missing]
    /\ outdir = "absent"
    /\ outfiles = {}
    /\ run = 0
    /\ cpc = "idle"
    /\ log_files = <<>>
    /\ labels = <<>>
    /\ idx = 1
    /\ figure = <<>>
    /\ error = "none"
    /\ ppc = "call"
    /\ filename = "a.txt"
    /\ pos = 1
    /\ steps = <<>>
    /\ losses = <<>>
    /\ times = <<>>
    /\ handles = <<>>
    /\ events = <<>>

NextParse ==
    \/ ParseOpen
    \/ ParseOpenFail
    \/ ParseSkip
    \/ ParseAppend
    \/ ParseValueError
    \/ ParseReturn

SpecParse == InitParse /\ [][NextParse]_vars

\* ------------------------------------------------ helpers of the properties
IsMatching(l) == Match(l).matched

\* The lines of the file that the loop has gone through.
Processed == SubSeq(content, 1, pos - 1)

MatchCount(ls) == Len(SelectSeq(ls, IsMatching))

\* What the specification expects of one matching line.
Triple(l) ==
    LET m == Match(l)
    IN  <<IntOf(m.g1), FloatOf(m.g2), FloatTimesInt(FloatOf(m.g4), IntOf(m.g1))>>

IsPrefix(a, b) == Len(a) <= Len(b) /\ SubSeq(b, 1, Len(a)) = a

C2_ResultInFileOrder ==
    ppc = "returned" =>
        LET ml == SelectSeq(content, IsMatching)
        IN  /\ Len(steps) = Len(ml) /\ Len(losses) = Len(ml) /\ Len(times) = Len(ml)
            /\ \A i \in 1..Len(ml) : <<steps[i], losses[i], times[i]>> = Triple(ml[i])
            /\ content = <<ExampleLine>> =>
                   /\ steps = <<100>>
                   /\ losses = << <<345, 2>> >>
                   /\ times = << <<5000, 0>> >>
            /\ content = <<Line7(<<".", "5">>, <<"2">>)>> =>
                   /\ steps = <<7>>
                   /\ losses = << <<5, 1>> >>
                   /\ times = << <<14, 0>> >>

C2_Witness ==
    /\ ppc = "returned"
    /\ Len(steps) = 2
    /\ steps[1] = 100
    /\ steps[2] = 7
    /\ times[2] = <<14, 0>>
    /\ times[1] = <<5000, 0>>

\* ----------------------------------------------------------------- C3
\* C3: a turn of the loop on a blank line, a comment line, a line with text
\* before 'step:' or a line with a missing field changes none of the three
\* lists, raises nothing and moves on to the next line.
C3_SkipHasNoEffect ==
    [][(ppc = "scan" /\ pos <= Len(content) /\ content[pos] \in OtherLines) =>
          /\ steps' = steps
          /\ losses' = losses
          /\ times' = times
          /\ error' = "none"
          /\ ppc' = "scan"
          /\ pos' = pos + 1]_vars

C3_Witness ==
    /\ ppc = "scan"
    /\ pos = 3
    /\ content[1] \in GoodLines
    /\ content[2] \in {BlankLine, CommentLine, PrefixedLine, MissingFieldLine}
    /\ Len(steps) = 1

\* ----------------------------------------------------------------- C4
\* C4: every line the pattern matches is converted and appended without a
\* numeric-parse error.
C4_MatchNeverRaises ==
    [][(ppc = "scan" /\ pos <= Len(content) /\ Match(content[pos]).matched) =>
          /\ error' = "none"
          /\ ppc' = "scan"
          /\ Len(steps') = Len(steps) + 1]_vars

\* ----------------------------------------------------------------- C5
\* Helpers about the current call of create_plots.
PairCount == Min(Len(log_files), Len(labels))

PairedFile(k) == fs[log_files[k]]

HasBadNumber(f) == \E k \in 1..Len(f.lines) : f.lines[k] \in BadNumberLines

OutNames == {f[1] : f \in outfiles}

\* C5: when the output directory can be made and every paired log file is
\* readable, create_plots does not fail, and when it has returned it has
\* written exactly the two images, each under its fixed name (an earlier
\* image of that name is overwritten, no file is added beside it): after two
\* calls the directory holds the files it held after one.
C5_CompletesAndOverwrites ==
    /\ (cpc = "error" /\ error # "OSError") =>
           \E k \in 1..PairCount : ~PairedFile(k).exists
    /\ cpc = "done" =>
           /\ {f \in outfiles : f[2] = run} = {<<n, run>> : n \in ImageNames}
           /\ OutNames \ {"notes.txt"} = ImageNames
           /\ Cardinality(outfiles) = Cardinality(OutNames)

\* ----------------------------------------------------------------- C6
FirstMissing ==
    CHOOSE k \in 1..PairCount :
        /\ ~PairedFile(k).exists
        /\ \A j \in 1..(k - 1) : PairedFile(j).exists

Opens == SelectSeq(events, LAMBDA e : e[1] = "open")

\* C6: in a call with a missing or unreadable paired log file the failure
\* comes in the first loop: the second loop and the return are never
\* reached, this call writes no image, no file after the missing one is
\* opened, and the error of the failed open is the one that leaves
\* create_plots, with nothing done after it.
C6_MissingFileAborts ==
    (cpc \in {"pass1", "pass2", "done", "error"}
        /\ \E k \in 1..PairCount : ~PairedFile(k).exists) =>
        /\ cpc \notin {"pass2", "done"}
        /\ \A f \in outfiles : f[2] # run
        /\ Len(Opens) <= FirstMissing
        /\ \A k \in 1..Len(Opens) : Opens[k][2] = log_files[k]
        /\ error = "FileNotFoundError" =>
               /\ ppc = "raised"
               /\ idx = FirstMissing
               /\ events[Len(events)] = <<"open", log_files[FirstMissing]>>
        /\ (cpc = "error" /\ error # "OSError") =>
               error \in {"FileNotFoundError", "ValueError"}

C6_Witness ==
    /\ cpc = "error"
    /\ error = "FileNotFoundError"
    /\ idx = 2
    /\ Len(figure) = 1
    /\ outdir = "present"

\* ----------------------------------------------------------------- C8
\* C8: at most one log file is open at any time: a handle exists only while
\* parse_log_file scans that file, so it is closed before the next open and
\* before a figure is saved, and also when the scan ends in an error.
C8_OneHandle ==
    /\ Len(handles) <= 1
    /\ ppc = "scan" => handles = <<filename>>
    /\ ppc # "scan" => handles = <<>>

C8_Witness ==
    /\ cpc = "pass1"
    /\ ppc = "raised"
    /\ error = "ValueError"
    /\ idx = 2
    /\ handles = <<>>

\* ----------------------------------------------------------------- C9
\* C9: with log_files and labels of different lengths no error comes of the
\* mismatch, and each loop parses and plots the first min(len(log_files),
\* len(labels)) files, the i-th file under the i-th label; nothing beyond
\* that index is opened or used.
C9_ZipTruncates ==
    /\ Len(figure) <= PairCount
    /\ \A k \in 1..Len(figure) :
          /\ figure[k].label = labels[k]
          /\ figure[k].file = log_files[k]
    /\ Len(Opens) <= 2 * PairCount
    /\ \A k \in 1..Len(Opens) :
          Opens[k][2] = log_files[IF k <= PairCount THEN k ELSE k - PairCount]
    /\ (cpc = "pass2" /\ ppc = "none" /\ idx = 1) => Len(Opens) = PairCount
    /\ cpc = "done" => Len(Opens) = 2 * PairCount
    /\ cpc = "error" =>
          \/ outdir = "blocked"
          \/ \E k \in 1..PairCount :
                ~PairedFile(k).exists \/ HasBadNumber(PairedFile(k))

C9_Witness ==
    /\ cpc = "done"
    /\ Len(log_files) # Len(labels)
    /\ PairCount >= 1

\* ---------------------------------------------------------------- C10
RECURSIVE ParseEvents(_, _)
\* The opens and closes of one loop over the first n files.
ParseEvents(files, n) ==
    IF n = 0 THEN <<>>
    ELSE ParseEvents(files, n - 1) \o <<<<"open", files[n]>>, <<"close", files[n]>>>>

ExpectedEvents ==
    <<<<"makedirs">>>>
        \o ParseEvents(log_files, PairCount)
        \o <<<<"savefig", "validation_vs_steps.png">>>>
        \o ParseEvents(log_files, PairCount)
        \o <<<<"savefig", "validation_vs_time.png">>>>

\* C10: a call of create_plots makes the output directory first, then parses
\* every paired file once in list order, writes validation_vs_steps.png,
\* parses every paired file a second time in list order and writes
\* validation_vs_time.png last; a call that returns has parsed each paired
\* file twice, and a call that a log file aborts has made the directory.
C10_FixedOrder ==
    /\ IsPrefix(events, ExpectedEvents)
    /\ cpc \in {"idle", "makedirs"} => events = <<>>
    /\ cpc \in {"pass1", "pass2", "done"} => outdir = "present"
    /\ cpc = "done" => events = ExpectedEvents
    /\ (cpc = "error" /\ error # "OSError") =>
          /\ outdir = "present"
          /\ events # <<>>

C10_Witness ==
    /\ cpc = "done"
    /\ PairCount = 2
    /\ log_files[1] # log_files[2]
    /\ run = 2

\* ----------------------------------------------------------------- C7
\* The values parse_log_file takes out of a match.
Fields(m) == [step |-> IntOf(m.g1), loss |-> FloatOf(m.g2), avg_time |-> FloatOf(m.g4)]

\* A line of the same layout written from the values of a match; the two
\* fields the parser never converts are copied.
Reformat(m) ==
    MkLine(FormatInt(Fields(m).step), m.total, FormatFloat(Fields(m).loss), m.g3,
           FormatFloat(Fields(m).avg_time))

====
